---- MODULE Spec2Model ----
(***************************************************************************)
(* SheShield: the sensor-to-assessment orchestration loop of App           *)
(* (toggleMonitoring, runAnalysisLoop), the capture adapters (CameraFeed,  *)
(* AudioMonitor) and the assessRisk mapping of geminiService.              *)
(*                                                                         *)
(* One action is one browser task (macrotask): an event handler together  *)
(* with the React render, the effects and the promise continuations       *)
(* (microtasks) that follow it before the next task can run.               *)
(***************************************************************************)
EXTENDS Integers, Sequences, FiniteSets, TLC

\* ---------------------------------------------------------------- bounds
MaxStarts == 2        \* start commands per behaviour
MaxRuns == 2          \* invocations of runAnalysisLoop per behaviour
MaxChunks == 1        \* dataavailable events per behaviour
LongRuns == 22        \* invocations of runAnalysisLoop in the long session
LongOverlaps == 1     \* overlapping cycle starts in the long session
WideRuns == 3         \* invocations of runAnalysisLoop in the session with both bundles
MaxReports == 2       \* report requests per behaviour
LiveRuns == 3         \* invocations of runAnalysisLoop in the session whose calls all return
AudioChunks == 6      \* non-empty chunks in the session that fills the audio window

\* ------------------------------------------------------- program constants
LogKeep == 19         \* prev.slice(-19)
ChunkWindow == 5      \* chunksRef.current.length > 5

\* ----------------------------------------------------------------- values
NoLocation == "null"
Here == "here"
NullAudio == <<>>     \* getLatestAudio's null; a non-empty blob never encodes to ""
EmptyImage == ""      \* capture() of a video element without frames
Frame == "jpeg"
Undefined == "undefined"
UndefinedScore == -1  \* a score field that is absent from the parsed JSON

Builds == {1, 2}      \* 1: 4-level types + first geminiService, 2: 5-level + fusion service

\* RiskLevel.DANGER as the App reads it: a member of the 4-level enum only
RiskLevelDANGER(b) == IF b = 1 THEN "DANGER" ELSE Undefined
RiskLevelCRITICAL == "CRITICAL"

RiskLevel(b) ==
  IF b = 1 THEN {"SAFE", "CAUTION", "DANGER", "CRITICAL"}
  ELSE {"SAFE", "UNCERTAIN", "SUSPICIOUS", "DANGEROUS", "CRITICAL"}

\* String.prototype.toUpperCase on the level strings the service can send
ToUpperCase(s) ==
  CASE s = "safe" -> "SAFE"
    [] s = "uncertain" -> "UNCERTAIN"
    [] s = "suspicious" -> "SUSPICIOUS"
    [] s = "dangerous" -> "DANGEROUS"
    [] s = "critical" -> "CRITICAL"
    [] s = "extreme" -> "EXTREME"
    [] OTHER -> s

\* recommended_action.replace(/_/g, ' ')
ReplaceUnderscores(s) ==
  CASE s = "notify_contacts" -> "notify contacts"
    [] s = "full_emergency_mode" -> "full emergency mode"
    [] OTHER -> s

InitialAssessment ==
  [riskLevel |-> "SAFE", score |-> 0, reason |-> "Standby",
   recommendedAction |-> "Tap Start to Monitor", detectedThreats |-> <<>>,
   detail |-> FALSE]

NoSensorDataAlert(b) ==
  [riskLevel |-> "UNCERTAIN", score |-> 15, reason |-> "No sensor data",
   recommendedAction |-> "Stay alert", detectedThreats |-> <<>>, detail |-> FALSE]

NoSensorData(b) ==
  [riskLevel |-> "SAFE", score |-> 0, reason |-> "No sensor data",
   recommendedAction |-> IF b = 1 THEN "Standby" ELSE "none",
   detectedThreats |-> <<>>, detail |-> FALSE]

FallbackSafe(b) ==
  [riskLevel |-> "SAFE", score |-> 0, reason |-> "Fusion engine unavailable",
   recommendedAction |-> "Stay alert", detectedThreats |-> <<>>, detail |-> FALSE]

Fallback(b) ==
  IF b = 1
  THEN [riskLevel |-> "CAUTION", score |-> 10, reason |-> "Analysis service unavailable",
        recommendedAction |-> "Stay alert", detectedThreats |-> <<"System offline">>,
        detail |-> FALSE]
  ELSE [riskLevel |-> "UNCERTAIN", score |-> 15, reason |-> "Fusion engine unavailable",
        recommendedAction |-> "Stay alert", detectedThreats |-> <<"System offline">>,
        detail |-> FALSE]

\* ------------------------------------------------ the external service
\* What generateContent can deliver: a rejection, a response without text,
\* text that is not JSON, a JSON object without the expected fields, or a
\* JSON object with them.
Body(l, s, t, a, d) ==
  [level |-> l, score |-> s, text |-> t, action |-> a, drivers |-> d]

NoBody == Body("", 0, "", "", <<>>)

Json(l, s, a, d) == [kind |-> "json", fields |-> TRUE, body |-> Body(l, s, "x", a, d)]

Failures ==
  {[kind |-> "reject", fields |-> FALSE, body |-> NoBody],
   [kind |-> "notext", fields |-> FALSE, body |-> NoBody],
   [kind |-> "badjson", fields |-> FALSE, body |-> NoBody],
   [kind |-> "json", fields |-> FALSE, body |-> NoBody]}

Conforming(b) ==
  IF b = 1
  THEN {Json("SAFE", 5, "Standby", <<>>),
        Json("DANGER", 80, "Call for help", <<"following">>),
        Json("CRITICAL", 150, "Call for help", <<"following">>)}
  ELSE {Json("safe", 5, "none", <<>>),
        Json("suspicious", 55, "notify_contacts", <<"route_deviation">>),
        Json("dangerous", 80, "notify_contacts", <<"audio_stress">>),
        Json("critical", 150, "full_emergency_mode", <<"audio_stress">>)}

Unrecognized(b) ==
  IF b = 1 THEN {Json("EXTREME", 99, "Call for help", <<>>)}
  ELSE {Json("extreme", 99, "full_emergency_mode", <<>>)}

Responses(b) == Failures \cup Conforming(b) \cup Unrecognized(b)

\* a JSON object that has the level and the action but not the other fields
Partial(b) ==
  IF b = 1 THEN {[kind |-> "partjson", fields |-> FALSE, body |-> Body("SAFE", 0, "", "Standby", <<>>)]}
  ELSE {[kind |-> "partjson", fields |-> FALSE, body |-> Body("safe", 0, "", "none", <<>>)]}

\* the long session's service answers one way
LongResponses(b) ==
  IF b = 1 THEN {Json("SAFE", 5, "Standby", <<>>)} ELSE {Json("safe", 5, "none", <<>>)}

\* the answers used where the report button is exercised: a rejection, a
\* safe and a dangerous result
AppResponses(b) ==
  {r \in Responses(b) : r.kind = "reject" \/ (r.fields /\ r.body.score \in {5, 80})}

\* assessRisk from the response on: the try block after the await, and the catch
assessRiskResult(b, r) ==
  IF r.kind = "reject" THEN Fallback(b)
  ELSE IF r.kind = "notext" THEN Fallback(b)
  ELSE IF r.kind = "badjson" THEN Fallback(b)
  ELSE IF r.kind = "partjson"
    THEN [riskLevel |-> IF b = 1 THEN r.body.level ELSE ToUpperCase(r.body.level),
          score |-> UndefinedScore, reason |-> Undefined,
          recommendedAction |-> IF b = 1 THEN r.body.action
                                ELSE ReplaceUnderscores(r.body.action),
          detectedThreats |-> <<>>, detail |-> FALSE]
  ELSE IF b = 1
    THEN IF r.fields
         THEN [riskLevel |-> r.body.level, score |-> r.body.score,
               reason |-> r.body.text, recommendedAction |-> r.body.action,
               detectedThreats |-> r.body.drivers, detail |-> FALSE]
         ELSE [riskLevel |-> Undefined, score |-> UndefinedScore,
               reason |-> Undefined, recommendedAction |-> Undefined,
               detectedThreats |-> <<>>, detail |-> FALSE]
    ELSE IF r.fields
         THEN [riskLevel |-> ToUpperCase(r.body.level), score |-> r.body.score,
               reason |-> r.body.text,
               recommendedAction |-> ReplaceUnderscores(r.body.action),
               detectedThreats |-> r.body.drivers, detail |-> TRUE]
         ELSE Fallback(b)   \* rawData.risk_level.toUpperCase() throws

HasPartsAlways(image, audio) == TRUE

\* parts.length > 0 in assessRisk
HasParts(image, audio) == image # EmptyImage \/ audio # NullAudio

\* ------------------------------------------------------------ pure helpers
\* Array.prototype.slice(-n)
SliceLast(s, n) == IF Len(s) <= n THEN s ELSE SubSeq(s, Len(s) - n + 1, Len(s))

AppendLogKeepsAll(prev, entry) == Append(SliceLast(prev, LogKeep + 1), entry)

\* prev => [...prev.slice(-19), entry]
AppendLog(prev, entry) == Append(SliceLast(prev, LogKeep), entry)

LogEntry(ts, result) == [ts |-> ts, riskLevel |-> result.riskLevel, reason |-> result.reason]

\* getLatestAudio: the value it resolves to, and the buffer it leaves
getLatestAudioValue(buf) == IF Len(buf) = 0 THEN NullAudio ELSE buf
getLatestAudioBufferKept(buf) == buf
getLatestAudioBufferKeepLast(buf) == IF Len(buf) = 0 THEN buf ELSE <<buf[Len(buf)]>>
getLatestAudioBuffer(buf) == IF Len(buf) = 0 THEN buf ELSE <<>>

PushChunkUnbounded(buf, c, size) == IF size > 0 THEN Append(buf, c) ELSE buf

\* recorder.ondataavailable
PushChunk(buf, c, size) ==
  IF size > 0
  THEN IF Len(buf) + 1 > ChunkWindow THEN Tail(Append(buf, c)) ELSE Append(buf, c)
  ELSE buf

\* if (result.riskLevel === RiskLevel.DANGER || result.riskLevel === RiskLevel.CRITICAL)
HighRisk(b, result) ==
  result.riskLevel = RiskLevelDANGER(b) \/ result.riskLevel = RiskLevelCRITICAL

ShortLim(b) ==
  [starts |-> MaxStarts, runs |-> MaxRuns, chunks |-> MaxChunks,
   overlaps |-> MaxRuns, responses |-> Responses(b), reports |-> 0]

\* one session of either bundle, long enough for two cycles to overlap
WideLim(b) ==
  [starts |-> 1, runs |-> WideRuns, chunks |-> 1,
   overlaps |-> WideRuns, responses |-> Responses(b) \cup Partial(b), reports |-> 0]

\* one session with report requests and the safe-place lookup answered
AppLim(b) ==
  [starts |-> 1, runs |-> 2, chunks |-> 1,
   overlaps |-> 1, responses |-> AppResponses(b), reports |-> MaxReports]

\* one session with overlapping cycles, answered by a result or a rejection
LiveLim(b) ==
  [starts |-> 1, runs |-> LiveRuns, chunks |-> 1,
   overlaps |-> LiveRuns,
   responses |-> LongResponses(b) \cup {r \in Failures : r.kind = "reject"}, reports |-> 0]

\* one session whose recorder delivers more chunks than the window holds
AudioLim(b) ==
  [starts |-> 1, runs |-> 3, chunks |-> AudioChunks,
   overlaps |-> 1, responses |-> LongResponses(b), reports |-> 0]

LongLim(b) ==
  [starts |-> 1, runs |-> LongRuns, chunks |-> 1,
   overlaps |-> LongOverlaps, responses |-> LongResponses(b), reports |-> 0]


\* --------------------------------------------------- safe places, reports
Chunk(m, t, u) == [maps |-> m, title |-> t, uri |-> u]

\* what the grounded generateContent can deliver to findSafePlaces
PlacesResponses ==
  {[kind |-> "reject", chunks |-> <<>>],
   [kind |-> "ok", chunks |-> <<>>],
   [kind |-> "ok", chunks |-> <<Chunk(FALSE, "news", "w1")>>],
   [kind |-> "ok", chunks |-> <<Chunk(TRUE, "Police", "m1"), Chunk(FALSE, "news", "w1"),
                                Chunk(TRUE, "", "m2")>>]}

findSafePlacesResultBare(r) ==
  IF r.kind = "reject" THEN <<>>
  ELSE LET found == SelectSeq(r.chunks, LAMBDA c : c.maps)
       IN [i \in 1..Len(found) |->
             [name |-> IF found[i].title = "" THEN "Safe Location" ELSE found[i].title,
              address |-> "View on Map", distance |-> "Nearby",
              type |-> "Safe Haven", uri |-> found[i].uri]]

\* findSafePlaces from the response on (uri "" stands for an entry without uri)
findSafePlacesResult(r) ==
  IF r.kind = "reject" THEN <<>>
  ELSE LET found == SelectSeq(r.chunks, LAMBDA c : c.maps)
           places == [i \in 1..Len(found) |->
                        [name |-> IF found[i].title = "" THEN "Safe Location"
                                  ELSE found[i].title,
                         address |-> "View on Map", distance |-> "Nearby",
                         type |-> "Safe Haven", uri |-> found[i].uri]]
       IN IF Len(places) > 0 THEN places
          ELSE <<[name |-> "Emergency Services", address |-> "Dial 911/112",
                  distance |-> "N/A", type |-> "Emergency", uri |-> ""]>>

\* the text of the service's answer to report request `id`
ReportTextOf(id) ==
  CASE id = 1 -> "INCIDENT REPORT 1"
    [] id = 2 -> "INCIDENT REPORT 2"
    [] OTHER -> "INCIDENT REPORT"

ReportOutcomes == {"text", "empty", "reject"}

generateIncidentReportResultBlank(o, id) ==
  IF o = "text" THEN ReportTextOf(id) ELSE ""

\* generateIncidentReport from the response on
generateIncidentReportResult(o, id) ==
  IF o = "reject" THEN "Error generating report."
  ELSE IF o = "empty" THEN "Could not generate report."
  ELSE ReportTextOf(id)

\* ------------------------------------------------------------------ state
VARIABLES
  build,            \* which pair of types/service files the bundle holds
  lim,              \* what the environment does in this behaviour (never changes)
  isMonitoring,     \* App state
  assessment,       \* App state: the displayed RiskAssessment
  location,         \* App state
  geo,              \* getCurrentPosition: "pending", "ok", "failed"
  logs,             \* App state
  intervalRef,      \* intervalRef.current, 0 for null
  timers,           \* live setInterval timers, each with the location its callback closed over
  nextTimer,        \* timer ids handed out so far
  starts,           \* start commands so far
  cycles,           \* runAnalysisLoop invocations suspended at an await
  started,          \* cycles that passed the guard so far
  invoked,          \* the latest runAnalysisLoop invocation: count, caller, timer
  overlaps,         \* cycles started while another was suspended
  clock,            \* timestamps taken so far (new Date())
  done,             \* cycles that wrote their result so far
  last,             \* the latest completed cycle: id and what the service delivered
  alerts,           \* console.warn("HIGH RISK DETECTED ...") calls so far
  chunks,           \* AudioMonitor chunksRef.current
  nextChunk,        \* non-empty chunks delivered so far
  drained,          \* the newest chunk that getLatestAudio has handed to a cycle so far
  mediaRecorderRef, \* mediaRecorderRef.current: "null", or its recorder's state
  lostRecorders,    \* recorders still recording that the ref no longer points to
  audioPending,     \* getUserMedia({audio}) promises not yet settled
  srcObject,        \* videoRef.current.srcObject: "null" or "stream" (tracks live)
  lostStreams,      \* camera streams with live tracks that are no longer attached
  cameraPending,    \* getUserMedia({video}) promises not yet settled
  safePlaces,       \* App state
  placesPending,    \* findSafePlaces calls not yet settled
  placesCalls,      \* findSafePlaces calls so far
  lastPlaces,       \* what the latest settled findSafePlaces call got from the service
  showReport,       \* App state
  reportText,       \* App state
  reports,          \* generateIncidentReport calls not yet settled
  reportCalls,      \* generateContent requests issued for reports so far
  lastReport        \* the latest settled report call: id and what the service delivered

sessionVars == <<isMonitoring, intervalRef, timers, nextTimer, starts>>
cycleVars == <<cycles, started, overlaps, clock, done, last, alerts, assessment, logs, chunks,
               drained>>
audioVars == <<nextChunk, mediaRecorderRef, lostRecorders, audioPending>>
cameraVars == <<srcObject, lostStreams, cameraPending>>
placesVars == <<safePlaces, placesPending, placesCalls, lastPlaces>>
reportVars == <<showReport, reportText, reports, reportCalls, lastReport>>
vars == <<build, lim, location, geo, invoked, sessionVars, cycleVars, audioVars, cameraVars,
          placesVars, reportVars>>

InitState ==
  /\ build \in Builds
  /\ isMonitoring = FALSE
  /\ assessment = InitialAssessment
  /\ location = NoLocation
  /\ geo = "pending"
  /\ logs = <<>>
  /\ intervalRef = 0
  /\ timers = {}
  /\ nextTimer = 0
  /\ starts = 0
  /\ cycles = {}
  /\ started = 0
  /\ invoked = [n |-> 0, by |-> "none", timer |-> 0]
  /\ overlaps = 0
  /\ clock = 0
  /\ done = 0
  /\ last = [id |-> 0, kind |-> "none", fields |-> FALSE]
  /\ alerts = 0
  /\ chunks = <<>>
  /\ drained = 0
  /\ nextChunk = 0
  /\ mediaRecorderRef = "null"
  /\ lostRecorders = 0
  /\ audioPending = 0
  /\ srcObject = "null"
  /\ lostStreams = 0
  /\ cameraPending = 0
  /\ safePlaces = <<>>
  /\ placesPending = 0
  /\ placesCalls = 0
  /\ lastPlaces = [kind |-> "none", chunks |-> <<>>]
  /\ showReport = FALSE
  /\ reportText = ""
  /\ reports = {}
  /\ reportCalls = 0
  /\ lastReport = [id |-> 0, kind |-> "none"]

\* the bundle under study: the 5-level types with the fusion service
Init == InitState /\ build = 2 /\ lim = ShortLim(build)

\* either bundle, one session
InitWide == InitState /\ lim = WideLim(build)

\* the 5-level bundle in the session whose reads and calls all return
InitLive == InitState /\ build = 2 /\ lim = LiveLim(build)

\* the 5-level bundle, its recorder delivering chunk after chunk
InitAudio == InitState /\ build = 2 /\ lim = AudioLim(build)

\* the 5-level bundle with its report button and safe-place lookup in use
InitApp == InitState /\ build = 2 /\ lim = AppLim(build)

\* one long session against a service that always answers the same way
InitLong == InitState /\ build = 2 /\ lim = LongLim(build)

\* ------------------------------------------------------------ the cycle
\* CameraHandle.capture: the frame of the attached stream, "" without one
captureStale == Frame

capture == IF srcObject # "null" THEN Frame ELSE EmptyImage

FinishLogsRisk(id, ts, result, r) ==
  /\ assessment' = result
  /\ logs' = IF result.riskLevel = "SAFE" THEN logs ELSE AppendLog(logs, LogEntry(ts, result))
  /\ alerts' = IF HighRisk(build, result) THEN alerts + 1 ELSE alerts
  /\ done' = done + 1
  /\ last' = [id |-> id, kind |-> r.kind, fields |-> r.fields]

FinishIfActive(id, ts, result, r) ==
  /\ assessment' = IF isMonitoring THEN result ELSE assessment
  /\ logs' = IF isMonitoring THEN AppendLog(logs, LogEntry(ts, result)) ELSE logs
  /\ alerts' = IF HighRisk(build, result) THEN alerts + 1 ELSE alerts
  /\ done' = done + 1
  /\ last' = [id |-> id, kind |-> r.kind, fields |-> r.fields]

FinishFenced(id, ts, result, r) ==
  /\ assessment' = IF \A c \in cycles : c.id <= id THEN result ELSE assessment
  /\ logs' = AppendLog(logs, LogEntry(ts, result))
  /\ alerts' = IF HighRisk(build, result) THEN alerts + 1 ELSE alerts
  /\ done' = done + 1
  /\ last' = [id |-> id, kind |-> r.kind, fields |-> r.fields]

\* setAssessment(result); setLogs(...); the auto-response check
Finish(id, ts, result, r) ==
  /\ assessment' = result
  /\ logs' = AppendLog(logs, LogEntry(ts, result))
  /\ alerts' = IF HighRisk(build, result) THEN alerts + 1 ELSE alerts
  /\ done' = done + 1
  /\ last' = [id |-> id, kind |-> r.kind, fields |-> r.fields]

Local == [kind |-> "local", fields |-> FALSE]

\* runAnalysisLoop after `await getLatestAudio()`: context, timestamp, and
\* assessRisk up to its own await (or its early return without parts)
AfterAudio(c, rest) ==
  /\ clock' = clock + 1
  /\ IF HasParts(c.image, c.audio)
     THEN /\ cycles' = rest \cup {[c EXCEPT !.stage = "call", !.ts = clock + 1]}
          /\ UNCHANGED <<assessment, logs, alerts, done, last>>
     ELSE /\ cycles' = rest
          /\ Finish(c.id, clock + 1, NoSensorData(build), Local)

hasLocationAlways(loc) == TRUE

\* the guard `if (!location) return`
hasLocation(loc) == loc # NoLocation

\* runAnalysisLoop as the callback that closed over location `loc`
runAnalysisLoop(loc, by, timer) ==
  /\ invoked' = [n |-> invoked.n + 1, by |-> by, timer |-> timer]
  /\ IF ~hasLocation(loc)
     THEN UNCHANGED cycleVars
     ELSE LET c == [id |-> started + 1, stage |-> "audio", ts |-> 0,
                    image |-> capture, audio |-> getLatestAudioValue(chunks)]
          IN /\ started' = started + 1
             /\ overlaps' = IF cycles # {} THEN overlaps + 1 ELSE overlaps
             /\ chunks' = getLatestAudioBuffer(chunks)
             /\ drained' = IF c.audio # NullAudio THEN c.audio[Len(c.audio)] ELSE drained
             /\ IF c.audio # NullAudio
                THEN /\ cycles' = cycles \cup {c}
                     /\ UNCHANGED <<clock, assessment, logs, alerts, done, last>>
                ELSE AfterAudio(c, cycles)

runLater(loc) == UNCHANGED <<invoked, cycleVars>>

\* toggleMonitoring's "Run immediately" call
runImmediately(loc) == runAnalysisLoop(loc, "start", 0)

\* what the environment still allows this invocation to do
MayRun(loc) ==
  /\ invoked.n < lim.runs
  /\ (loc # NoLocation /\ cycles # {}) => overlaps < lim.overlaps

timestampAtCompletion(c) == clock + 1

\* the `timestamp` constant of the cycle's closure
timestamp(c) == c.ts

\* FileReader.onloadend of a suspended getLatestAudio
AudioLoaded ==
  \E c \in cycles :
    /\ c.stage = "audio"
    /\ AfterAudio(c, cycles \ {c})
    /\ UNCHANGED <<build, lim, placesVars, reportVars, location, geo, invoked, sessionVars, audioVars, cameraVars,
                   started, overlaps, chunks, drained>>

RespondUncaught ==
  \E c \in cycles : \E r \in lim.responses :
    /\ c.stage = "call"
    /\ cycles' = cycles \ {c}
    /\ IF r.kind = "reject"
       THEN UNCHANGED <<assessment, logs, alerts, done, last>>
       ELSE Finish(c.id, timestamp(c), assessRiskResult(build, r), r)
    /\ UNCHANGED <<build, lim, placesVars, reportVars, location, geo, invoked, sessionVars, audioVars, cameraVars,
                   started, overlaps, clock, chunks, drained>>

\* generateContent settles; assessRisk returns; runAnalysisLoop writes the result
Respond ==
  \E c \in cycles : \E r \in lim.responses :
    /\ c.stage = "call"
    /\ cycles' = cycles \ {c}
    /\ Finish(c.id, timestamp(c), assessRiskResult(build, r), r)
    /\ UNCHANGED <<build, lim, placesVars, reportVars, location, geo, invoked, sessionVars, audioVars, cameraVars,
                   started, overlaps, clock, chunks, drained>>

\* ----------------------------------------------------- the session
\* the updater `prev => ({...prev, riskLevel: SAFE, reason: "Monitoring Paused"})`
paused(prev) == [prev EXCEPT !.riskLevel = "SAFE", !.reason = "Monitoring Paused"]

clearIntervalSkipped(ts, ref) == ts

\* clearInterval(intervalRef.current) when it is set
clearInterval(ts, ref) == IF ref # 0 THEN {t \in ts : t.id # ref} ELSE ts

\* AudioMonitor's and CameraFeed's effects when isActive became true
Acquire ==
  /\ audioPending' = audioPending + 1
  /\ cameraPending' = cameraPending + 1
  /\ UNCHANGED <<nextChunk, mediaRecorderRef, lostRecorders, srcObject, lostStreams>>

\* AudioMonitor's and CameraFeed's effects when isActive became false
Release ==
  /\ mediaRecorderRef' = IF mediaRecorderRef = "null" THEN "null" ELSE "inactive"
  /\ srcObject' = "null"
  /\ UNCHANGED <<nextChunk, lostRecorders, audioPending, lostStreams, cameraPending>>

storedHandleKept(ref, h) == IF ref # 0 THEN ref ELSE h

\* intervalRef.current = setInterval(...)
storedHandle(ref, h) == h

\* toggleMonitoring, else branch
Start ==
  /\ ~isMonitoring
  /\ starts < lim.starts
  /\ MayRun(location)
  /\ starts' = starts + 1
  /\ isMonitoring' = TRUE
  /\ runImmediately(location)
  /\ nextTimer' = nextTimer + 1
  /\ timers' = timers \cup {[id |-> nextTimer + 1, loc |-> location]}
  /\ intervalRef' = storedHandle(intervalRef, nextTimer + 1)
  /\ Acquire
  /\ UNCHANGED <<build, lim, placesVars, reportVars, location, geo>>

\* toggleMonitoring, if branch
Stop ==
  /\ isMonitoring
  /\ timers' = clearInterval(timers, intervalRef)
  /\ isMonitoring' = FALSE
  /\ assessment' = paused(assessment)
  /\ Release
  /\ UNCHANGED <<build, lim, placesVars, reportVars, location, geo, invoked, intervalRef, nextTimer, starts,
                 cycles, started, overlaps, clock, done, last, alerts, logs, chunks, drained>>

\* a live interval timer fires
Tick ==
  \E t \in timers :
    /\ MayRun(t.loc)
    /\ runAnalysisLoop(t.loc, "tick", t.id)
    /\ UNCHANGED <<build, lim, placesVars, reportVars, location, geo, sessionVars, audioVars, cameraVars>>

\* ------------------------------------------------------------ location
\* the [location] effect with a location: findSafePlaces(...).then(setSafePlaces)
findSafePlacesCalled ==
  /\ placesCalls' = placesCalls + 1
  /\ placesPending' = placesPending + 1
  /\ UNCHANGED <<safePlaces, lastPlaces>>

\* getCurrentPosition's success callback, the render and the [location] effect
GeoResolved ==
  /\ geo = "pending"
  /\ geo' = "ok"
  /\ location' = Here
  /\ findSafePlacesCalled
  /\ UNCHANGED <<build, lim, reportVars, invoked, sessionVars, cycleVars, audioVars, cameraVars>>

GeoFailed ==
  /\ geo = "pending"
  /\ geo' = "failed"
  /\ UNCHANGED <<build, lim, placesVars, reportVars, location, invoked, sessionVars, cycleVars, audioVars, cameraVars>>

\* ------------------------------------------------------------- devices
\* getUserMedia({audio}) fulfils: new MediaRecorder, start(1000), ref assigned
MicrophoneGranted ==
  /\ audioPending > 0
  /\ audioPending' = audioPending - 1
  /\ lostRecorders' = IF mediaRecorderRef = "recording" THEN lostRecorders + 1
                       ELSE lostRecorders
  /\ mediaRecorderRef' = "recording"
  /\ UNCHANGED <<build, lim, placesVars, reportVars, location, geo, invoked, sessionVars, cycleVars, cameraVars,
                 nextChunk>>

\* getUserMedia({audio}) rejects
MicrophoneDenied ==
  /\ audioPending > 0
  /\ audioPending' = audioPending - 1
  /\ UNCHANGED <<build, lim, placesVars, reportVars, location, geo, invoked, sessionVars, cycleVars, cameraVars,
                 nextChunk, mediaRecorderRef, lostRecorders>>

\* getUserMedia({video}) fulfils: srcObject assigned
CameraGranted ==
  /\ cameraPending > 0
  /\ cameraPending' = cameraPending - 1
  /\ lostStreams' = IF srcObject = "stream" THEN lostStreams + 1 ELSE lostStreams
  /\ srcObject' = "stream"
  /\ UNCHANGED <<build, lim, placesVars, reportVars, location, geo, invoked, sessionVars, cycleVars, audioVars>>

\* getUserMedia({video}) rejects
CameraDenied ==
  /\ cameraPending > 0
  /\ cameraPending' = cameraPending - 1
  /\ UNCHANGED <<build, lim, placesVars, reportVars, location, geo, invoked, sessionVars, cycleVars, audioVars,
                 srcObject, lostStreams>>

\* recorders recording, each with its microphone tracks live
recording == lostRecorders + (IF mediaRecorderRef = "recording" THEN 1 ELSE 0)

\* camera streams with live tracks
streaming == lostStreams + (IF srcObject = "stream" THEN 1 ELSE 0)

\* a recording recorder delivers a chunk (possibly an empty one)
DataAvailable ==
  \E size \in {0, 1} :
    /\ recording > 0
    /\ nextChunk < lim.chunks
    /\ nextChunk' = IF size > 0 THEN nextChunk + 1 ELSE nextChunk
    /\ chunks' = PushChunk(chunks, nextChunk + 1, size)
    /\ UNCHANGED <<build, lim, placesVars, reportVars, location, geo, invoked, sessionVars, cameraVars,
                   cycles, started, overlaps, clock, done, last, alerts, assessment, logs,
                   drained, mediaRecorderRef, lostRecorders, audioPending>>

Next ==
  \/ Start
  \/ Stop
  \/ Tick
  \/ AudioLoaded
  \/ Respond
  \/ GeoResolved
  \/ GeoFailed
  \/ MicrophoneGranted
  \/ MicrophoneDenied
  \/ CameraGranted
  \/ CameraDenied
  \/ DataAvailable

\* findSafePlaces settles; setSafePlaces
PlacesSettled ==
  \E r \in PlacesResponses :
    /\ placesPending > 0
    /\ placesPending' = placesPending - 1
    /\ safePlaces' = findSafePlacesResult(r)
    /\ lastPlaces' = r
    /\ UNCHANGED <<build, lim, reportVars, location, geo, invoked, sessionVars, cycleVars,
                   audioVars, cameraVars, placesCalls>>

\* handleGenerateReport up to its await
GenerateReport ==
  /\ reportCalls < lim.reports
  /\ showReport' = TRUE
  /\ reportText' = "Generating comprehensive analysis..."
  /\ reportCalls' = reportCalls + 1
  /\ reports' = reports \cup {[id |-> reportCalls + 1, image |-> capture, lines |-> Len(logs)]}
  /\ UNCHANGED <<build, lim, placesVars, location, geo, invoked, sessionVars, cycleVars,
                 audioVars, cameraVars, lastReport>>

\* generateIncidentReport settles; setReportText(report)
ReportSettled ==
  \E q \in reports : \E o \in ReportOutcomes :
    /\ reports' = reports \ {q}
    /\ reportText' = generateIncidentReportResult(o, q.id)
    /\ lastReport' = [id |-> q.id, kind |-> o]
    /\ UNCHANGED <<build, lim, placesVars, location, geo, invoked, sessionVars, cycleVars,
                   audioVars, cameraVars, showReport, reportCalls>>

\* the report modal's close button
CloseReport ==
  /\ showReport
  /\ showReport' = FALSE
  /\ UNCHANGED <<build, lim, placesVars, location, geo, invoked, sessionVars, cycleVars,
                 audioVars, cameraVars, reportText, reports, reportCalls, lastReport>>

\* the monitoring loop together with the report button and the place lookup
NextApp ==
  \/ Next
  \/ PlacesSettled
  \/ GenerateReport
  \/ ReportSettled
  \/ CloseReport

Spec == Init /\ [][Next]_vars

SpecWide == InitWide /\ [][Next]_vars

SpecAudio == InitAudio /\ [][Next]_vars

\* the audio read or the external call of cycle `id` returns
Returns(id) ==
  /\ AudioLoaded \/ Respond
  /\ \E c \in cycles : c.id = id /\ c \notin cycles'

\* every audio read and every external call eventually returns
SpecReturns ==
  InitLive /\ [][Next]_vars /\ \A id \in 1..LiveRuns : WF_vars(Returns(id))

SpecApp == InitApp /\ [][NextApp]_vars

SpecLong == InitLong /\ [][Next]_vars

\* ================================================================ claims

\* C1: after any sequence of start/stop commands a poll timer is live if and
\* only if the session is monitoring, and at most one timer is live.
C1_TimerIffMonitoring ==
  /\ isMonitoring <=> timers # {}
  /\ Cardinality(timers) <= 1

\* a restarted session: the second start's timer is the only live one
C1_Witness == starts = 2 /\ isMonitoring /\ Cardinality(timers) = 1

\* C2: after a stop the displayed risk level is the neutral baseline
\* (SAFE / "Monitoring Paused") and stays so until the next start, also once a
\* call dispatched before the stop has resolved.
C2_PausedStaysNeutral ==
  (~isMonitoring /\ starts > 0) =>
    (assessment.riskLevel = "SAFE" /\ assessment.reason = "Monitoring Paused")

\* C3: with monitoring switched on while location is unset no assessment call
\* is made until location resolves, and once it has resolved the running
\* session's timer ticks start assessment cycles.
C3_AssessesOnceLocated ==
  /\ [](location = NoLocation => started = 0)
  /\ [][(invoked'.n # invoked.n /\ invoked'.by = "tick"
          /\ isMonitoring /\ location # NoLocation)
        => started' = started + 1]_vars

\* C4: the rolling log never holds more than 20 entries, and a cycle that
\* appends to a full log evicts exactly the oldest entry and keeps the order
\* of the others.
C4_LogRolls ==
  /\ [](Len(logs) <= LogKeep + 1)
  /\ [][done' # done =>
         LET kept == IF Len(logs) = LogKeep + 1 THEN Tail(logs) ELSE logs
         IN /\ Len(logs') = Len(kept) + 1
            /\ SubSeq(logs', 1, Len(kept)) = kept]_vars

\* a full log whose two newest entries come from overlapping cycles that
\* completed back to back in the reverse of their timestamp order
C4_Witness ==
  /\ Len(logs) = LogKeep + 1
  /\ done > LogKeep + 1
  /\ logs[LogKeep + 1].ts < logs[LogKeep].ts

\* C5: a failed external call leaves the fixed fallback assessment in
\* presentation state (UNCERTAIN/CAUTION, fixed score, unavailable reason,
\* "System offline" threat) and leaves the session and its timer as they were.
C5_FailureFallsBack ==
  [][(done' = done + 1 /\ last'.kind = "reject") =>
       /\ assessment'.riskLevel = (IF build = 1 THEN "CAUTION" ELSE "UNCERTAIN")
       /\ assessment'.score = (IF build = 1 THEN 10 ELSE 15)
       /\ assessment'.reason \in {"Analysis service unavailable", "Fusion engine unavailable"}
       /\ assessment'.detectedThreats = <<"System offline">>
       /\ logs'[Len(logs')].riskLevel = assessment'.riskLevel
       /\ timers' = timers
       /\ isMonitoring' = isMonitoring
       /\ isMonitoring => timers' # {}]_vars

\* a cycle's call was rejected while monitoring: the fallback is displayed and
\* logged after an earlier entry, and the session's timer is still live
C5_Witness ==
  /\ last.kind = "reject"
  /\ isMonitoring
  /\ \E t \in timers : t.id = intervalRef
  /\ assessment.riskLevel = "UNCERTAIN"
  /\ Len(logs) = 2
  /\ logs[2].reason = "Fusion engine unavailable"

\* C6: the displayed assessment always has a level of the enumerated set and
\* a score within 0..100.
C6_DisplayedInRange ==
  /\ assessment.riskLevel \in RiskLevel(build)
  /\ assessment.score \in 0..100

\* C7: getLatestAudio on a non-empty buffer returns the buffered audio and
\* leaves the buffer empty; on an empty buffer it returns null, so the second
\* of two reads without a chunk in between returns null.
C7_ConsumeOnce ==
  [][started' = started + 1 =>
       /\ chunks' = <<>>
       /\ IF chunks # <<>>
          THEN \E c \in cycles' : c.id = started' /\ c.audio = chunks
          ELSE \A c \in cycles' : c.id = started' => c.audio = NullAudio]_vars

\* two reads with no chunk in between: the first got every chunk delivered so
\* far, the second got null
C7_Witness ==
  \E c1 \in cycles : \E c2 \in cycles :
    /\ c1.audio # NullAudio
    /\ Len(c1.audio) = nextChunk
    /\ c2.id = c1.id + 1
    /\ c2.audio = NullAudio
    /\ chunks = <<>>

\* C8: a start command runs the cycle function exactly once before the timer
\* is scheduled, and every other run is a tick of the session's own timer.
C8_ImmediateThenTicks ==
  [][/\ (~isMonitoring /\ isMonitoring') =>
          /\ invoked'.n = invoked.n + 1
          /\ invoked'.by = "start"
          /\ \E t \in timers' \ timers : intervalRef' = t.id
     /\ invoked'.n # invoked.n =>
          /\ invoked'.n = invoked.n + 1
          /\ \/ invoked'.by = "start" /\ ~isMonitoring /\ isMonitoring'
             \/ /\ invoked'.by = "tick"
                /\ isMonitoring /\ isMonitoring'
                /\ invoked'.timer = intervalRef
                /\ \E t \in timers : t.id = intervalRef]_vars

\* a session whose second run was a tick of its timer
C8_Witness ==
  /\ isMonitoring
  /\ starts = 1
  /\ invoked.n = 2
  /\ invoked.by = "tick"
  /\ invoked.timer = intervalRef

\* C9: a cycle that completes with level DANGEROUS or CRITICAL triggers the
\* local alert, and no other level does.
C9_AlertIffHighRisk ==
  [][done' = done + 1 =>
       ((alerts' = alerts + 1) <=> assessment'.riskLevel \in {"DANGEROUS", "CRITICAL"})]_vars

\* C10: once monitoring is inactive and no acquisition is pending, no camera
\* stream is attached and no recorder is recording; at most one recorder and
\* one camera stream are live at a time.
C10_DevicesFollowMonitoring ==
  /\ (~isMonitoring /\ audioPending = 0 /\ cameraPending = 0) =>
       (srcObject = "null" /\ recording = 0 /\ streaming = 0)
  /\ recording <= 1
  /\ streaming <= 1

C12_UnknownLocationNoOp ==
  /\ [][(invoked'.n # invoked.n /\ location = NoLocation)
        => UNCHANGED <<cycles, started, chunks, assessment, logs, done, alerts>>]_vars
  /\ [](geo = "failed" => (location = NoLocation /\ started = 0 /\ placesCalls = 0))
  /\ [][geo = "failed" => geo' = "failed"]_vars

\* geolocation failed; a tick found buffered audio and left it alone
C12_Witness ==
  /\ geo = "failed" /\ isMonitoring
  /\ invoked.n = 2 /\ invoked.by = "tick"
  /\ Len(chunks) > 0 /\ started = 0
  /\ logs = <<>> /\ assessment = InitialAssessment

\* C13: a cycle whose response is malformed (no response text, unparsable
\* JSON, or JSON lacking expected fields) ends with the same fixed fallback
\* assessment as a failed request.
C13_MalformedIsFallback ==
  [][(done' = done + 1
       /\ (last'.kind \in {"notext", "badjson", "partjson"}
           \/ (last'.kind = "json" /\ ~last'.fields)))
     => assessment' = Fallback(build)]_vars

\* the assessments that exist as complete objects: the placeholder, the
\* fallback and what assessRisk builds from a response
Produced == {InitialAssessment, Fallback(build)}
              \cup {assessRiskResult(build, r) : r \in lim.responses}

\* C14: whatever changes the displayed assessment replaces it as a
\* whole, by a value that owes nothing to the one displayed before: a result,
\* or (on stop) the one paused value, which is the one that the first stop
\* of all, over the placeholder, displays.
C14_ReplacedWhole ==
  [][assessment' # assessment =>
       assessment' \in Produced \cup {NoSensorData(build), paused(InitialAssessment)}]_vars

\* C15, as stated: the displayed assessment is always the placeholder, a
\* result of the external call, or the fallback.
C15_OnlyThreeSources == assessment \in Produced

\* C15: the displayed assessment is always the placeholder, a result of the
\* external call, the fallback, the fixed "No sensor data" assessment that
\* assessRisk returns without a call, or one of these with riskLevel and
\* reason overwritten by stop.
C15_FiveSources ==
  LET Whole == Produced \cup
                 {[riskLevel |-> "SAFE", score |-> 0, reason |-> "No sensor data",
                   recommendedAction |-> IF build = 1 THEN "Standby" ELSE "none",
                   detectedThreats |-> <<>>, detail |-> FALSE]}
  IN \/ assessment \in Whole
     \/ \E a \in Whole :
          assessment = [a EXCEPT !.riskLevel = "SAFE", !.reason = "Monitoring Paused"]

\* a "No sensor data" cycle was logged and a later result was paused by stop
C15_Witness ==
  /\ Len(logs) = 2 /\ logs[1].reason = "No sensor data"
  /\ ~isMonitoring /\ assessment.reason = "Monitoring Paused"
  /\ assessment.score = 80

\* C16: at most one report request is outstanding at any time, so that two
\* requests can never both later write the displayed report text.
C16_OneOutstanding == Cardinality(reports) <= 1

\* C17: an invocation of generate-report issues exactly one request and shows
\* the placeholder; the request settles once, is never reissued, and the
\* displayed text becomes the response text, "Could not generate report."
\* for an empty response text, or "Error generating report." for a failed
\* request.
C17_ReportAlwaysReturns ==
  /\ [][reportCalls' # reportCalls =>
          /\ reportCalls' = reportCalls + 1
          /\ Cardinality(reports') = Cardinality(reports) + 1
          /\ showReport'
          /\ reportText' = "Generating comprehensive analysis..."]_vars
  /\ [][reports' # reports =>
          \/ reportCalls' = reportCalls + 1
          \/ /\ reportCalls' = reportCalls
             /\ Cardinality(reports') = Cardinality(reports) - 1
             /\ reports' \subseteq reports
             /\ \E q \in reports \ reports' : lastReport'.id = q.id
             /\ reportText' =
                  CASE lastReport'.kind = "text" -> ReportTextOf(lastReport'.id)
                    [] lastReport'.kind = "empty" -> "Could not generate report."
                    [] lastReport'.kind = "reject" -> "Error generating report."]_vars
  /\ [][reportText' # reportText => reports' # reports]_vars

\* two invocations, both settled, the last one by a failed request
C17_Witness ==
  /\ reportCalls = 2 /\ reports = {}
  /\ lastReport.kind = "reject" /\ reportText = "Error generating report."

\* C18: findSafePlaces is called once for each change of location and by
\* nothing else; a lookup that succeeds without a maps result yields the one
\* "Emergency Services" entry, a lookup that fails yields the empty sequence,
\* and a lookup with maps results yields one entry for each of them.
C18_LookupPerLocation ==
  /\ [][placesCalls' # placesCalls <=> location' # location]_vars
  /\ [][placesCalls' # placesCalls => placesCalls' = placesCalls + 1]_vars
  /\ [][safePlaces' # safePlaces => placesPending' = placesPending - 1]_vars
  /\ [][placesPending' < placesPending =>
          LET maps == {i \in 1..Len(lastPlaces'.chunks) : lastPlaces'.chunks[i].maps}
          IN IF lastPlaces'.kind = "reject" THEN safePlaces' = <<>>
             ELSE IF maps = {}
               THEN safePlaces' = <<[name |-> "Emergency Services",
                                     address |-> "Dial 911/112", distance |-> "N/A",
                                     type |-> "Emergency", uri |-> ""]>>
             ELSE /\ Len(safePlaces') = Cardinality(maps)
                  /\ \A i \in 1..Len(safePlaces') : safePlaces'[i].type = "Safe Haven"]_vars

\* one lookup, answered without a maps result, while two cycles have run
C18_Witness ==
  /\ placesCalls = 1 /\ placesPending = 0
  /\ lastPlaces.kind = "ok" /\ Len(lastPlaces.chunks) = 1
  /\ Len(safePlaces) = 1 /\ safePlaces[1].name = "Emergency Services"
  /\ started = 2 /\ invoked.by = "tick"

\* C19: a cycle that starts while another is in flight leaves that one in
\* flight; a completing cycle leaves the other cycles in flight and replaces
\* the displayed assessment with its own result (the one its log entry
\* records), whether or not a later-started cycle has completed before it.
C19_LastWriteWins ==
  /\ [][started' = started + 1 => cycles \subseteq cycles']_vars
  /\ [][done' = done + 1 =>
          /\ \A c \in cycles : c.id # last'.id => c \in cycles'
          /\ Len(logs') > 0
          /\ assessment'.riskLevel = logs'[Len(logs')].riskLevel
          /\ assessment'.reason = logs'[Len(logs')].reason]_vars

\* cycles 2 and 3 overlapped; 3 answered SAFE first, then 2 answered with
\* score 80, which is what stays displayed
C19_Witness ==
  /\ started = 3 /\ done = 3 /\ cycles = {} /\ overlaps > 0
  /\ last.id = 2 /\ isMonitoring
  /\ Len(logs) = 3 /\ logs[2].riskLevel = "SAFE"
  /\ assessment.score = 80

\* C20: a completing cycle appends its entry at the end of the log, behind
\* the entries of the cycles that completed before it, and the entry carries
\* the timestamp the cycle took before dispatching its call, not the time of
\* completion.
C20_LogInCompletionOrder ==
  /\ [](\A c \in cycles : c.stage = "call" => c.ts \in 1..clock)
  /\ [][done' = done + 1 =>
          /\ Len(logs') > 0
          /\ IF Len(logs) <= LogKeep
             THEN SubSeq(logs', 1, Len(logs') - 1) = logs
             ELSE SubSeq(logs', 1, Len(logs') - 1) = SubSeq(logs, Len(logs) - LogKeep + 1, Len(logs))
          /\ \A c \in cycles :
               (c.id = last'.id /\ c.stage = "call") => logs'[Len(logs')].ts = c.ts
          /\ last'.kind = "local" => logs'[Len(logs')].ts = clock']_vars

\* the entry appended last carries an earlier timestamp than the one before
C20_Witness ==
  /\ Len(logs) = 3 /\ done = 3
  /\ logs[3].ts < logs[2].ts
  /\ logs[1].ts < logs[3].ts

\* C21: while the session is idle no cycle starts and the cycle function is
\* not invoked; the stop itself removes no cycle in flight; and a cycle that
\* completes while the session is idle still replaces the displayed
\* assessment with its result and appends its log entry.
C21_StopKeepsInFlight ==
  /\ [][(~isMonitoring /\ ~isMonitoring') => (started' = started /\ invoked' = invoked)]_vars
  /\ [][(isMonitoring /\ ~isMonitoring') =>
          (cycles' = cycles /\ started' = started /\ logs' = logs)]_vars
  /\ [][(done' = done + 1 /\ ~isMonitoring) =>
          /\ Len(logs') = Len(logs) + 1
          /\ logs'[Len(logs')].riskLevel = assessment'.riskLevel
          /\ logs'[Len(logs')].reason = assessment'.reason
          /\ assessment'.reason # "Monitoring Paused"]_vars

\* idle after a stop, showing the score-80 result of the call that was in
\* flight when the stop came
C21_Witness ==
  /\ ~isMonitoring /\ starts = 1 /\ timers = {}
  /\ cycles = {} /\ done = 2 /\ last.kind = "json"
  /\ Len(logs) = 2 /\ logs[2].reason = "x"
  /\ assessment.score = 80 /\ assessment.reason = "x"

\* C22, as stated: the stored timer handle is set if and only if the session
\* is active.
C22_HandleIffActive == (intervalRef # 0) <=> isMonitoring

\* C22: the stored timer handle is unset until the first start; every start
\* stores the handle of the timer it creates; stop clears that timer and
\* leaves the handle stored, so while the session is idle after a stop the
\* handle is set and names no live timer.
C22_HandleSinceFirstStart ==
  /\ []((intervalRef # 0) <=> (starts > 0))
  /\ [](isMonitoring => \E t \in timers : t.id = intervalRef)
  /\ [](~isMonitoring => \A t \in timers : t.id # intervalRef)
  /\ [][(isMonitoring /\ ~isMonitoring') => intervalRef' = intervalRef]_vars
  /\ [][(~isMonitoring /\ isMonitoring') => intervalRef' \notin {0, intervalRef}]_vars

\* idle after the second stop: the second timer's handle is still stored
C22_Witness ==
  /\ ~isMonitoring /\ starts = 2
  /\ intervalRef = 2 /\ timers = {}

\* C23: the audio buffer never holds more than 5 chunks; a non-empty chunk
\* is appended at the end, the oldest one being dropped when the buffer is
\* full; and the buffer changes only by such an append or by a drain, so an
\* empty chunk is never stored.
C23_WindowOfFive ==
  /\ [](Len(chunks) <= ChunkWindow)
  /\ [][nextChunk' = nextChunk + 1 =>
          chunks' = IF Len(chunks) = ChunkWindow
                    THEN Append(Tail(chunks), nextChunk')
                    ELSE Append(chunks, nextChunk')]_vars
  /\ [][chunks' # chunks =>
          \/ nextChunk' = nextChunk + 1
          \/ (started' = started + 1 /\ chunks' = <<>>)]_vars

\* the sixth chunk has arrived on a full buffer: chunk 1 is gone
C23_Witness ==
  /\ nextChunk = 6 /\ drained = 0
  /\ Len(chunks) = ChunkWindow /\ chunks[1] = 2 /\ chunks[ChunkWindow] = 6

\* C24: a drain hands the whole buffer to its cycle and empties it in the
\* same step; every chunk in the buffer is newer than every chunk ever
\* drained, so no chunk is handed to two cycles; and a chunk that arrives
\* while a drained cycle is still reading its audio goes to the buffer and
\* leaves that cycle's audio as it was.
C24_ChunkSentOnce ==
  /\ [](\A i \in 1..Len(chunks) : chunks[i] > drained /\ chunks[i] <= nextChunk)
  /\ [](\A i \in 1..Len(chunks) : \A j \in 1..Len(chunks) : i < j => chunks[i] < chunks[j])
  /\ [](\A c \in cycles : \A i \in 1..Len(c.audio) : c.audio[i] <= drained)
  /\ [](\A c1 \in cycles : \A c2 \in cycles :
          c1 # c2 => \A i \in 1..Len(c1.audio) : \A j \in 1..Len(c2.audio) :
                       c1.audio[i] # c2.audio[j])
  /\ [][(started' = started + 1 /\ chunks # <<>>) =>
          /\ chunks' = <<>>
          /\ drained' = chunks[Len(chunks)]
          /\ \E c \in cycles' \ cycles : c.audio = chunks]_vars
  /\ [][drained' # drained => started' = started + 1]_vars
  /\ [][nextChunk' = nextChunk + 1 =>
          /\ cycles' = cycles
          /\ chunks'[Len(chunks')] = nextChunk']_vars

\* two cycles in flight with chunk 1 and chunk 2, chunk 3 having arrived
\* while the second was still reading
C24_Witness ==
  /\ chunks = <<3>>
  /\ \E c1 \in cycles : \E c2 \in cycles :
       /\ c1.audio = <<1>> /\ c2.audio = <<2>>
       /\ c2.stage = "audio"

\* C25: a cycle that starts with neither a frame nor audio makes no external
\* call: it completes in the same step with SAFE / score 0 / "No sensor
\* data", displayed and logged; and every cycle whose external call is in
\* flight carries a frame or audio.
C25_NoDataNoCall ==
  /\ [](\A c \in cycles : c.stage = "call" => (c.image # EmptyImage \/ c.audio # NullAudio))
  /\ [][(started' = started + 1 /\ srcObject = "null" /\ chunks = <<>>) =>
          /\ cycles' = cycles
          /\ done' = done + 1
          /\ last' = [id |-> started', kind |-> "local", fields |-> FALSE]
          /\ assessment'.riskLevel = "SAFE"
          /\ assessment'.score = 0
          /\ assessment'.reason = "No sensor data"
          /\ assessment'.detectedThreats = <<>>
          /\ Len(logs') = Len(logs) + 1
          /\ logs'[Len(logs')].riskLevel = "SAFE"
          /\ logs'[Len(logs')].reason = "No sensor data"]_vars
  /\ [][(done' = done + 1 /\ last'.kind = "local") => cycles' \subseteq cycles]_vars

\* the 4-level bundle's first cycle, started before any stream or chunk
C25_Witness ==
  /\ build = 1 /\ isMonitoring
  /\ done = 1 /\ last.kind = "local" /\ cycles = {}
  /\ Len(logs) = 1 /\ logs[1].reason = "No sensor data"
  /\ assessment.reason = "No sensor data" /\ assessment.recommendedAction = "Standby"

\* C26: every cycle that passed the guard is either in flight or has
\* completed, and each completion appended one log entry in the step that
\* wrote its assessment: the log holds as many entries as cycles have
\* completed (the newest 20 of them once there are more), the log changes
\* only in a completion, and right after a completion the newest entry has
\* the level and reason of the displayed assessment.
C26_OneEntryPerCycle ==
  /\ [](started = done + Cardinality(cycles))
  /\ [](Len(logs) = IF done <= LogKeep + 1 THEN done ELSE LogKeep + 1)
  /\ [][logs' # logs <=> done' = done + 1]_vars
  /\ [][done' # done => done' = done + 1]_vars
  /\ [][done' = done + 1 =>
          /\ logs'[Len(logs')].riskLevel = assessment'.riskLevel
          /\ logs'[Len(logs')].reason = assessment'.reason
          /\ logs'[Len(logs')].ts \notin {logs[i].ts : i \in 1..Len(logs)}]_vars

\* 22 cycles passed the guard and completed; the log holds the newest 20
C26_Witness ==
  /\ started = 22 /\ done = 22 /\ cycles = {}
  /\ Len(logs) = LogKeep + 1
  /\ logs[LogKeep + 1].reason = assessment.reason
  /\ logs[1].ts = 3

\* cycle `id` has passed the guard and is no longer in flight
Completed(id) == started >= id /\ \A c \in cycles : c.id # id

\* C27: when every audio read and every external call eventually returns,
\* every cycle that passed the guard eventually leaves flight, and it leaves
\* flight only by writing its assessment and appending its log entry; a tick
\* of a timer whose callback knows the location starts its cycle whatever
\* is in flight, and the cycles in flight stay in flight.
C27_EveryCycleCompletes ==
  /\ \A id \in 1..LiveRuns : (started >= id) ~> Completed(id)
  /\ [](started = done + Cardinality(cycles))
  /\ [][(\E c \in cycles : c.id \notin {d.id : d \in cycles'}) =>
          /\ done' = done + 1
          /\ Len(logs') = Len(logs) + 1
          /\ logs'[Len(logs')].reason = assessment'.reason]_vars
  /\ [][(invoked'.n # invoked.n /\ invoked'.by = "tick"
          /\ \E t \in timers : t.id = invoked'.timer /\ t.loc # NoLocation)
        => (started' = started + 1 /\ cycles \subseteq cycles')]_vars

\* the third cycle started while the second was in flight, and all three
\* have completed
C27_Witness ==
  /\ started = 3 /\ overlaps > 0
  /\ Completed(1) /\ Completed(2) /\ Completed(3)
  /\ done = 3 /\ Len(logs) = 3

====
